---- MODULE Spec2Model ----
(***************************************************************************)
(* Spam e-mail detector: the validation layer (core/validation_utils.py),  *)
(* the content extractor (gmail_utils.py and its older copy in app.py),    *)
(* the classification entry point (model_utils.py and app.py), the text    *)
(* cleaning (core/text_utils.py and app.py), fetch_emails and              *)
(* gmail_authenticate (gmail_utils.py and app.py) and the pagination of    *)
(* the Gmail page (app.py).                                                *)
(*                                                                         *)
(* Every function is one action.  A call is a state with pc = "call"; the  *)
(* action of the called function moves it to pc = "done" and stores what   *)
(* the function returned in ret and the external calls it made in calls.   *)
(* session_state is st.session_state of the Streamlit application, which   *)
(* only the pages of app.py read and write.                                *)
(*                                                                         *)
(* Python values are records [type, val].  A str used by the validation    *)
(* layer is a sequence of runs [ch, n] (n copies of character ch), so that *)
(* texts of 100000 and of 1000000 characters are ordinary values; a str    *)
(* used by the content extractor is a sequence of one-character strings.   *)
(***************************************************************************)
EXTENDS Integers, Sequences, FiniteSets, TLC

VARIABLES pc, op, arg, ret, calls, session_state

vars == <<pc, op, arg, ret, calls, session_state>>

(***************************************************************************)
(* Bounds of the model and constants of the program.                       *)
(***************************************************************************)
MaxRuns == 3
MaxBatch == 3

TEXT_MIN_LENGTH == 1
TEXT_MAX_LENGTH == 100000
EMAIL_MAX_SIZE == 1000000

(***************************************************************************)
(* Python values.                                                          *)
(***************************************************************************)
PyStr(s) == [type |-> "str", val |-> s]
PyInt(i) == [type |-> "int", val |-> i]
PyList(s) == [type |-> "list", val |-> s]
PyDict(d) == [type |-> "dict", val |-> d]
PyNone == [type |-> "NoneType", val |-> <<>>]

Run(c, k) == [ch |-> c, n |-> k]

RECURSIVE StrLen(_)
\* len(s)
StrLen(s) == IF s = <<>> THEN 0 ELSE Head(s).n + StrLen(Tail(s))

\* the characters str.strip() removes (of the alphabet the texts are drawn from)
IsSpace(c) == c \in {" ", "\n"}

RECURSIVE LStrip(_)
LStrip(s) == IF s # <<>> /\ IsSpace(Head(s).ch) THEN LStrip(Tail(s)) ELSE s

RECURSIVE RStrip(_)
RStrip(s) ==
    IF s # <<>> /\ IsSpace(s[Len(s)].ch) THEN RStrip(SubSeq(s, 1, Len(s) - 1)) ELSE s

\* s.strip()
Strip(s) == RStrip(LStrip(s))

\* str(n) inside an f-string
Fmt(n) == ToString(n)

(***************************************************************************)
(* core/validation_utils.py                                                *)
(***************************************************************************)
\* A result (is_valid, error_message); a message is the sequence of the
\* fragments of its f-string, the empty message "" is <<>>.
Result(valid, msg) == [ok |-> valid, reason |-> msg]

\* what the except clause of each validator returns: "Validation error: {e}"
ValidationError == Result(FALSE, <<"Validation error: ", "TypeError">>)

MutTextStrippedMax(text, min_length, max_length) ==
    IF text.type # "str" THEN Result(FALSE, <<"Text must be a string">>)
    ELSE IF min_length.type # "int" THEN ValidationError
    ELSE IF StrLen(Strip(text.val)) < min_length.val
        THEN Result(FALSE, <<"Text must contain at least ", Fmt(min_length.val), " character(s)">>)
    ELSE IF max_length.type # "int" THEN ValidationError
    ELSE IF StrLen(Strip(text.val)) > max_length.val
        THEN Result(FALSE, <<"Text exceeds maximum length of ", Fmt(max_length.val), " characters">>)
    ELSE IF Strip(text.val) = <<>>
        THEN Result(FALSE, <<"Text cannot be empty or contain only whitespace">>)
    ELSE Result(TRUE, <<>>)

\* validate_text_input(text, min_length, max_length).  Comparing an int with
\* a bound that is no int raises TypeError, which the except clause turns
\* into a result.
validate_text_input(text, min_length, max_length) ==
    IF text.type # "str" THEN Result(FALSE, <<"Text must be a string">>)
    ELSE IF min_length.type # "int" THEN ValidationError
    ELSE IF StrLen(Strip(text.val)) < min_length.val
        THEN Result(FALSE, <<"Text must contain at least ", Fmt(min_length.val), " character(s)">>)
    ELSE IF max_length.type # "int" THEN ValidationError
    ELSE IF StrLen(text.val) > max_length.val
        THEN Result(FALSE, <<"Text exceeds maximum length of ", Fmt(max_length.val), " characters">>)
    ELSE IF Strip(text.val) = <<>>
        THEN Result(FALSE, <<"Text cannot be empty or contain only whitespace">>)
    ELSE Result(TRUE, <<>>)

required_fields == <<"subject", "sender", "raw_content", "cleaned_content">>

RECURSIVE CheckFields(_, _)
\* the for loop of validate_email_data from required_fields[i] on: the result
\* of the first return it reaches, or Result(TRUE, <<>>) when it ends
CheckFields(d, i) ==
    IF i > Len(required_fields) THEN Result(TRUE, <<>>)
    ELSE LET field == required_fields[i] IN
        IF field \notin DOMAIN d
            THEN Result(FALSE, <<"Email missing required field: ", field>>)
        ELSE IF d[field].type # "str"
            THEN Result(FALSE, <<"Field '", field, "' must be a string">>)
        ELSE CheckFields(d, i + 1)

MutEmailSizeOffByOne(email) ==
    IF email.type # "dict" THEN Result(FALSE, <<"Email must be a dictionary">>)
    ELSE LET fields == CheckFields(email.val, 1) IN
        IF ~fields.ok THEN fields
        ELSE IF StrLen(email.val["raw_content"].val) >= EMAIL_MAX_SIZE
            THEN Result(FALSE, <<"Email content exceeds maximum size">>)
        ELSE Result(TRUE, <<>>)

\* validate_email_data(email)
validate_email_data(email) ==
    IF email.type # "dict" THEN Result(FALSE, <<"Email must be a dictionary">>)
    ELSE LET fields == CheckFields(email.val, 1) IN
        IF ~fields.ok THEN fields
        ELSE IF StrLen(email.val["raw_content"].val) > EMAIL_MAX_SIZE
            THEN Result(FALSE, <<"Email content exceeds maximum size">>)
        ELSE Result(TRUE, <<>>)

\* A result (is_valid, error_message, valid_emails)
BatchResult(valid, msg, emails) == [ok |-> valid, reason |-> msg, valid_emails |-> emails]

RECURSIVE BatchLoop(_, _, _, _)
\* the for loop of validate_batch_emails from emails[idx] on, with the
\* survivors and the counter it has so far: <<valid_emails, invalid_count>>
BatchLoop(emails, idx, valid_emails, invalid_count) ==
    IF idx > Len(emails) THEN <<valid_emails, invalid_count>>
    ELSE IF validate_email_data(emails[idx]).ok
        THEN BatchLoop(emails, idx + 1, Append(valid_emails, emails[idx]), invalid_count)
        ELSE BatchLoop(emails, idx + 1, valid_emails, invalid_count + 1)

BatchVerdict(valid_emails, invalid_count) ==
    IF invalid_count > 0 /\ Len(valid_emails) = 0
        THEN BatchResult(FALSE, <<"All ", Fmt(invalid_count), " emails failed validation">>, <<>>)
    ELSE IF invalid_count > 0
        THEN BatchResult(TRUE, <<"Validated ", Fmt(Len(valid_emails)), " email(s), skipped ",
                                 Fmt(invalid_count), " invalid email(s)">>, valid_emails)
    ELSE BatchResult(TRUE, <<>>, valid_emails)

MutBatchAllOrNothing(emails) ==
    IF emails.type # "list" THEN BatchResult(FALSE, <<"Emails must be a list">>, <<>>)
    ELSE IF Len(emails.val) = 0 THEN BatchResult(FALSE, <<"No emails provided">>, <<>>)
    ELSE LET r == BatchLoop(emails.val, 1, <<>>, 0) IN
        IF r[2] > 0
            THEN BatchResult(FALSE, <<"All ", Fmt(r[2]), " emails failed validation">>, <<>>)
            ELSE BatchVerdict(r[1], r[2])

MutBatchAcceptsEmpty(emails) ==
    IF emails.type # "list" THEN BatchResult(FALSE, <<"Emails must be a list">>, <<>>)
    ELSE LET r == BatchLoop(emails.val, 1, <<>>, 0) IN BatchVerdict(r[1], r[2])

\* validate_batch_emails(emails)
validate_batch_emails(emails) ==
    IF emails.type # "list" THEN BatchResult(FALSE, <<"Emails must be a list">>, <<>>)
    ELSE IF Len(emails.val) = 0 THEN BatchResult(FALSE, <<"No emails provided">>, <<>>)
    ELSE LET r == BatchLoop(emails.val, 1, <<>>, 0) IN BatchVerdict(r[1], r[2])

(***************************************************************************)
(* The calls of the validation layer that are checked.                     *)
(***************************************************************************)
SeqsUpTo(S, n) == UNION {[1..k -> S] : k \in 0..n}

\* texts: up to MaxRuns runs of a space or a letter, short or very long
TextRuns == {Run(c, k) : c \in {" ", "a"}, k \in {1, TEXT_MAX_LENGTH - 1}}
Texts == SeqsUpTo(TextRuns, MaxRuns)

TextArgs ==
    [text : {PyStr(s) : s \in Texts} \cup {PyNone, PyInt(7)},
     min_length : {PyInt(0), PyInt(TEXT_MIN_LENGTH), PyInt(2), PyNone},
     max_length : {PyInt(0), PyInt(2), PyInt(TEXT_MAX_LENGTH), PyNone}]

Long(k) == <<Run("a", k)>>

\* the values a field of an e-mail record is given
FieldValues == {PyStr(<<>>), PyStr(Long(1)), PyNone}
RawValues == FieldValues \cup {PyStr(Long(EMAIL_MAX_SIZE)), PyStr(Long(EMAIL_MAX_SIZE + 1))}

FieldsOf(S) == [S -> FieldValues \cup RawValues]

\* dictionaries with any of the required fields and, possibly, a date
EmailDicts ==
    {d \in UNION {FieldsOf(S) : S \in SUBSET {"subject", "sender", "raw_content",
                                              "cleaned_content", "date"}} :
        \A f \in DOMAIN d : f # "raw_content" => d[f] \in FieldValues}

EmailArgs == {PyDict(d) : d \in EmailDicts} \cup {PyNone, PyStr(Long(1)), PyList(<<>>)}

Email(subject, raw) ==
    PyDict([f \in {"subject", "sender", "raw_content", "cleaned_content"} |->
              IF f = "subject" THEN subject
              ELSE IF f = "raw_content" THEN raw ELSE PyStr(Long(1))])

GoodA == Email(PyStr(Long(1)), PyStr(Long(2)))
GoodB == Email(PyStr(Long(2)), PyStr(Long(EMAIL_MAX_SIZE)))
BadType == Email(PyNone, PyStr(Long(1)))
BadSize == Email(PyStr(Long(1)), PyStr(Long(EMAIL_MAX_SIZE + 1)))
BadMissing == PyDict([f \in {"subject", "sender"} |-> PyStr(Long(1))])

BatchRecords == {GoodA, GoodB, BadType, BadSize, BadMissing, PyNone}

BatchArgs == {PyList(s) : s \in SeqsUpTo(BatchRecords, MaxBatch)} \cup {PyNone, GoodA}

InitValidate ==
    /\ pc = "call"
    /\ ret = PyNone
    /\ calls = <<>>
    /\ session_state = <<>>
    /\ \/ op = "validate_text_input" /\ arg \in TextArgs
       \/ op = "validate_email_data" /\ arg \in EmailArgs
       \/ op = "validate_batch_emails" /\ arg \in BatchArgs

ValidateTextInput ==
    /\ pc = "call" /\ op = "validate_text_input"
    /\ ret' = validate_text_input(arg.text, arg.min_length, arg.max_length)
    /\ pc' = "done"
    /\ UNCHANGED <<session_state, op, arg, calls>>

ValidateEmailData ==
    /\ pc = "call" /\ op = "validate_email_data"
    /\ ret' = validate_email_data(arg)
    /\ pc' = "done"
    /\ UNCHANGED <<session_state, op, arg, calls>>

ValidateBatchEmails ==
    /\ pc = "call" /\ op = "validate_batch_emails"
    /\ ret' = validate_batch_emails(arg)
    /\ pc' = "done"
    /\ UNCHANGED <<session_state, op, arg, calls>>

NextValidate == ValidateTextInput \/ ValidateEmailData \/ ValidateBatchEmails

SpecValidate == InitValidate /\ [][NextValidate]_vars

(***************************************************************************)
(* gmail_utils.py and app.py: the content extractor.  A str is a sequence  *)
(* of one-character strings, a dict is a function on the keys it has.      *)
(***************************************************************************)
MaxParts == 2

\* what a call gives its caller: a value, or an exception that propagates
Value(v) == [raised |-> FALSE, val |-> v]
Raise(e) == [raised |-> TRUE, val |-> <<e>>]

\* d.get(k, default)
Get(d, k, default) == IF k \in DOMAIN d THEN d[k] ELSE default

\* s.startswith(prefix)
StartsWith(s, prefix) == Len(s) >= Len(prefix) /\ SubSeq(s, 1, Len(prefix)) = prefix

B64Alphabet ==
    <<"A", "B", "C", "D", "E", "F", "G", "H", "I", "J", "K", "L", "M", "N", "O", "P",
      "Q", "R", "S", "T", "U", "V", "W", "X", "Y", "Z", "a", "b", "c", "d", "e", "f",
      "g", "h", "i", "j", "k", "l", "m", "n", "o", "p", "q", "r", "s", "t", "u", "v",
      "w", "x", "y", "z", "0", "1", "2", "3", "4", "5", "6", "7", "8", "9", "+", "/">>

\* the six bits a character of the standard alphabet stands for
B64Value(c) == (CHOOSE i \in 1..Len(B64Alphabet) : B64Alphabet[i] = c) - 1

InB64Alphabet(c) == \E i \in 1..Len(B64Alphabet) : B64Alphabet[i] = c

\* base64.urlsafe_b64decode first maps "-" to "+" and "_" to "/"
UrlsafeTranslate(s) ==
    [i \in 1..Len(s) |-> IF s[i] = "-" THEN "+" ELSE IF s[i] = "_" THEN "/" ELSE s[i]]

RECURSIVE A2bBase64(_, _, _, _, _, _)
\* binascii.a2b_base64 (not strict) from character i on, with the position in
\* the quad, the bits left over, the pads seen and the bytes written so far.
\* A character outside the alphabet is skipped; a pad that completes a quad
\* ends the input; input that ends inside a quad is an error.
A2bBase64(s, i, quad_pos, leftchar, pads, bin) ==
    IF i > Len(s)
    THEN IF quad_pos = 0 THEN [ok |-> TRUE, bytes |-> bin]
         ELSE [ok |-> FALSE, bytes |-> <<>>]
    ELSE IF s[i] = "="
    THEN IF quad_pos >= 2 /\ quad_pos + pads + 1 >= 4
         THEN [ok |-> TRUE, bytes |-> bin]
         ELSE A2bBase64(s, i + 1, quad_pos, leftchar,
                        IF quad_pos >= 2 THEN pads + 1 ELSE pads, bin)
    ELSE IF ~InB64Alphabet(s[i])
    THEN A2bBase64(s, i + 1, quad_pos, leftchar, pads, bin)
    ELSE LET this_ch == B64Value(s[i]) IN
         CASE quad_pos = 0 -> A2bBase64(s, i + 1, 1, this_ch, 0, bin)
           [] quad_pos = 1 ->
                A2bBase64(s, i + 1, 2, this_ch % 16, 0,
                          Append(bin, leftchar * 4 + this_ch \div 16))
           [] quad_pos = 2 ->
                A2bBase64(s, i + 1, 3, this_ch % 4, 0,
                          Append(bin, leftchar * 16 + this_ch \div 4))
           [] quad_pos = 3 ->
                A2bBase64(s, i + 1, 0, 0, 0, Append(bin, leftchar * 64 + this_ch))

\* base64.urlsafe_b64decode(s): the bytes, or binascii.Error
urlsafe_b64decode(s) == A2bBase64(UrlsafeTranslate(s), 1, 0, 0, 0, <<>>)

AsciiPrintable ==
    <<" ", "!", "\"", "#", "$", "%", "&", "'", "(", ")", "*", "+", ",", "-", ".", "/",
      "0", "1", "2", "3", "4", "5", "6", "7", "8", "9", ":", ";", "<", "=", ">", "?",
      "@", "A", "B", "C", "D", "E", "F", "G", "H", "I", "J", "K", "L", "M", "N", "O",
      "P", "Q", "R", "S", "T", "U", "V", "W", "X", "Y", "Z", "[", "\\", "]", "^", "_",
      "U+0060", "a", "b", "c", "d", "e", "f", "g", "h", "i", "j", "k", "l", "m", "n", "o",
      "p", "q", "r", "s", "t", "u", "v", "w", "x", "y", "z", "{", "|", "}", "~">>

\* bytes.decode("utf-8", errors="replace") on the bytes the bodies of the
\* model decode to: a printable ASCII byte is its character (the grave accent
\* is written U+0060), and a byte that can be no part of UTF-8 (0xC0, 0xC1,
\* 0xF5..0xFF) is one replacement marker
Utf8Replace(bytes) ==
    [i \in 1..Len(bytes) |->
        IF bytes[i] >= 32 /\ bytes[i] <= 126 THEN AsciiPrintable[bytes[i] - 31]
        ELSE "U+FFFD"]

\* the body of decode_part, without its try
DecodeBody(part) ==
    IF "data" \in DOMAIN Get(part, "body", <<>>)
    THEN LET decoded == urlsafe_b64decode(part["body"]["data"]) IN
         IF decoded.ok THEN Value(Utf8Replace(decoded.bytes)) ELSE Raise("binascii.Error")
    ELSE Value(<<>>)

\* decode_part of gmail_utils.py (impl = "gmail_utils": a failure is caught
\* and gives "") and of app.py (impl = "app": it propagates)
decode_part(impl, part) ==
    IF impl = "gmail_utils" /\ DecodeBody(part).raised THEN Value(<<>>) ELSE DecodeBody(part)

RECURSIVE MutSubTagsNoSpace(_, _)
MutSubTagsNoSpace(s, i) ==
    IF i > Len(s) THEN <<>>
    ELSE LET closes == {j \in (i + 1)..Len(s) : s[j] = ">"}
             close == CHOOSE j \in closes : \A k \in closes : j <= k
         IN IF s[i] = "<" /\ closes # {} /\ close >= i + 2
            THEN MutSubTagsNoSpace(s, close + 1)
            ELSE <<s[i]>> \o MutSubTagsNoSpace(s, i + 1)

RECURSIVE SubTags(_, _)
\* re.sub(r"<[^>]+>", " ", s) from character i on: a "<" starts a match when
\* the next ">" after it exists and is not the character right after it
SubTags(s, i) ==
    IF i > Len(s) THEN <<>>
    ELSE LET closes == {j \in (i + 1)..Len(s) : s[j] = ">"}
             close == CHOOSE j \in closes : \A k \in closes : j <= k
         IN IF s[i] = "<" /\ closes # {} /\ close >= i + 2
            THEN <<" ">> \o SubTags(s, close + 1)
            ELSE <<s[i]>> \o SubTags(s, i + 1)

RECURSIVE Unescape(_, _)
\* html.unescape from character i on, for text whose every "&" begins one of
\* "&lt;", "&gt;", "&amp;" or no character reference at all
Unescape(s, i) ==
    IF i > Len(s) THEN <<>>
    ELSE IF StartsWith(SubSeq(s, i, Len(s)), <<"&", "l", "t", ";">>)
        THEN <<"<">> \o Unescape(s, i + 4)
    ELSE IF StartsWith(SubSeq(s, i, Len(s)), <<"&", "g", "t", ";">>)
        THEN <<">">> \o Unescape(s, i + 4)
    ELSE IF StartsWith(SubSeq(s, i, Len(s)), <<"&", "a", "m", "p", ";">>)
        THEN <<"&">> \o Unescape(s, i + 5)
    ELSE <<s[i]>> \o Unescape(s, i + 1)

\* clean_html(html_content)
clean_html(html_content) == Unescape(SubTags(html_content, 1), 1)

TextPlain == <<"t", "e", "x", "t", "/", "p", "l", "a", "i", "n">>
TextHtml == <<"t", "e", "x", "t", "/", "h", "t", "m", "l">>

\* part.get("body", {}).get("data") is truthy
HasData(part) ==
    /\ "data" \in DOMAIN Get(part, "body", <<>>)
    /\ part["body"]["data"] # <<>>

\* part.get("mimeType") == "text/plain" and part.get("body", {}).get("data")
IsPlainPart(part) ==
    /\ "mimeType" \in DOMAIN part /\ part["mimeType"] = TextPlain
    /\ HasData(part)

\* part.get("mimeType", "").startswith("text/html") and part.get("body", {}).get("data")
IsHtmlPart(part) ==
    /\ StartsWith(Get(part, "mimeType", <<>>), TextHtml)
    /\ HasData(part)

\* the value with clean_html applied, an exception as it is
CleanHtmlOf(r) == IF r.raised THEN r ELSE Value(clean_html(r.val))

RECURSIVE MutFirstPlainAnyText(_, _)
MutFirstPlainAnyText(parts, i) ==
    IF i > Len(parts) THEN 0
    ELSE IF StartsWith(Get(parts[i], "mimeType", <<>>), <<"t", "e", "x", "t", "/">>)
            /\ HasData(parts[i]) THEN i
    ELSE MutFirstPlainAnyText(parts, i + 1)

RECURSIVE FirstPlain(_, _)
\* the first for loop: the index of the first part from i on that it
\* returns from, 0 when the loop ends
FirstPlain(parts, i) ==
    IF i > Len(parts) THEN 0
    ELSE IF IsPlainPart(parts[i]) THEN i
    ELSE FirstPlain(parts, i + 1)

RECURSIVE FirstHtml(_, _)
\* the second for loop, likewise
FirstHtml(parts, i) ==
    IF i > Len(parts) THEN 0
    ELSE IF IsHtmlPart(parts[i]) THEN i
    ELSE FirstHtml(parts, i + 1)

RECURSIVE ExtractBody(_, _)
RECURSIVE MutNestedLoopFirstOnly(_, _, _)
RECURSIVE NestedLoop(_, _, _)

MutNestedLoopFirstOnly(impl, parts, i) ==
    IF i > Len(parts) THEN Value(<<>>)
    ELSE IF "parts" \in DOMAIN parts[i] THEN ExtractBody(impl, parts[i])
    ELSE MutNestedLoopFirstOnly(impl, parts, i + 1)

\* the third for loop: the first non-empty result of a part that has parts
NestedLoop(impl, parts, i) ==
    IF i > Len(parts) THEN Value(<<>>)
    ELSE IF "parts" \in DOMAIN parts[i]
        THEN LET result == ExtractBody(impl, parts[i]) IN
             IF result.raised \/ result.val # <<>> THEN result
             ELSE NestedLoop(impl, parts, i + 1)
    ELSE NestedLoop(impl, parts, i + 1)

\* extract_email_content(payload); in gmail_utils.py the whole body is inside
\* a try whose except clause returns ""
ExtractBody(impl, payload) ==
    LET body ==
        IF "body" \in DOMAIN payload /\ HasData(payload)
        THEN IF StartsWith(Get(payload, "mimeType", <<>>), TextHtml)
             THEN CleanHtmlOf(decode_part(impl, payload))
             ELSE decode_part(impl, payload)
        ELSE IF "parts" \in DOMAIN payload
        THEN LET parts == payload["parts"]
                 plain == FirstPlain(parts, 1)
                 html == FirstHtml(parts, 1)
             IN IF plain # 0 THEN decode_part(impl, parts[plain])
                ELSE IF html # 0 THEN CleanHtmlOf(decode_part(impl, parts[html]))
                ELSE NestedLoop(impl, parts, 1)
        ELSE Value(<<>>)
    IN IF impl = "gmail_utils" /\ body.raised THEN Value(<<>>) ELSE body

\* extract_email_content of gmail_utils.py
extract_email_content(payload) == ExtractBody("gmail_utils", payload)

\* extract_email_content of app.py
app_extract_email_content(payload) == ExtractBody("app", payload)

(***************************************************************************)
(* The payloads the extractor is called with.                              *)
(***************************************************************************)
\* "SGVsbG8=", base64 of "Hello"
B64Hello == <<"S", "G", "V", "s", "b", "G", "8", "=">>
\* "PGI-SGk8L2I-", base64url of "<b>Hi</b>"
B64Html == <<"P", "G", "I", "-", "S", "G", "k", "8", "L", "2", "I", "-">>
\* "PD4mbHQ7aSZndDs=", base64 of "<>&lt;i&gt;"
B64Ent == <<"P", "D", "4", "m", "b", "H", "Q", "7", "a", "S", "Z", "n", "d", "D", "s", "=">>
\* "SGVsbG8", malformed: the padding is missing
B64Bad == <<"S", "G", "V", "s", "b", "G", "8">>

Multipart == <<"m", "u", "l", "t", "i", "p", "a", "r", "t", "/", "m", "i", "x", "e", "d">>

\* the keys of a part
Mime(m) == "mimeType" :> m
BodyData(d) == "body" :> ("data" :> d)
BodyNoData == "body" :> ("size" :> 0)
Parts(ps) == "parts" :> ps

PlainHello == Mime(TextPlain) @@ BodyData(B64Hello)
PlainBad == Mime(TextPlain) @@ BodyData(B64Bad)
HtmlHtml == Mime(TextHtml) @@ BodyData(B64Html)

\* parts without parts of their own
ChildLeaves ==
    {Mime(m) @@ BodyData(d) : m \in {TextPlain, TextHtml},
                              d \in {B64Hello, B64Html, B64Bad, <<>>}}
    \cup {Mime(TextPlain \o <<";">>) @@ BodyData(B64Hello),
          Mime(TextHtml \o <<";">>) @@ BodyData(B64Ent),
          BodyData(B64Hello),
          Mime(TextPlain) @@ BodyNoData}

\* a part whose parts have parts: the first of them holds nothing
Deep ==
    Mime(Multipart) @@ BodyNoData
        @@ Parts(<<Mime(Multipart) @@ BodyNoData @@ Parts(<<>>),
                   Mime(Multipart) @@ BodyNoData @@ Parts(<<PlainHello>>)>>)

\* parts with parts of their own
ChildContainers ==
    {Mime(Multipart) @@ BodyNoData @@ Parts(ps) :
        ps \in {<<>>, <<PlainHello>>, <<HtmlHtml>>, <<PlainBad>>, <<PlainBad, HtmlHtml>>}}
    \cup {Mime(Multipart) @@ BodyData(B64Ent) @@ Parts(<<HtmlHtml>>), Deep}

Children == ChildLeaves \cup ChildContainers

\* the payload itself, before its parts
PayloadHeads ==
    {<<>>,
     Mime(Multipart) @@ BodyNoData,
     Mime(Multipart) @@ BodyData(<<>>),
     Mime(TextPlain) @@ BodyData(B64Hello),
     Mime(TextPlain) @@ BodyData(B64Html),
     Mime(TextPlain) @@ BodyData(B64Bad),
     Mime(TextHtml) @@ BodyData(B64Html),
     Mime(TextHtml) @@ BodyData(B64Bad),
     Mime(TextHtml \o <<";">>) @@ BodyData(B64Ent)}

Payloads ==
    PayloadHeads
    \cup {h @@ Parts(ps) : h \in PayloadHeads, ps \in SeqsUpTo(Children, MaxParts)}

ExtractOps == {"gmail_utils.extract_email_content", "app.extract_email_content"}

InitExtract ==
    /\ pc = "call"
    /\ ret = PyNone
    /\ calls = <<>>
    /\ session_state = <<>>
    /\ op \in ExtractOps
    /\ arg \in Payloads

ExtractEmailContent ==
    /\ pc = "call" /\ op = "gmail_utils.extract_email_content"
    /\ ret' = extract_email_content(arg)
    /\ pc' = "done"
    /\ UNCHANGED <<session_state, op, arg, calls>>

AppExtractEmailContent ==
    /\ pc = "call" /\ op = "app.extract_email_content"
    /\ ret' = app_extract_email_content(arg)
    /\ pc' = "done"
    /\ UNCHANGED <<session_state, op, arg, calls>>

NextExtract == ExtractEmailContent \/ AppExtractEmailContent

SpecExtract == InitExtract /\ [][NextExtract]_vars

(***************************************************************************)
(* core/text_utils.py transform_text and model_utils.py predict_spam, with *)
(* their older copies in app.py.  The texts are made of the characters     *)
(* " ", "a", "B", "!", "<" and ">", which is enough for a stop word ("a"), *)
(* a word that is none, an upper-case letter, a punctuation mark and a tag.*)
(***************************************************************************)
Letters == {"a", "b", "B"}

\* text.lower()
Lower(s) == [i \in 1..Len(s) |-> IF s[i].ch = "B" THEN Run("b", s[i].n) ELSE s[i]]

RECURSIVE Canon(_)
\* the same string with runs of the same character merged
Canon(s) ==
    IF Len(s) < 2 THEN s
    ELSE IF s[1].ch = s[2].ch
        THEN Canon(<<Run(s[1].ch, s[1].n + s[2].n)>> \o SubSeq(s, 3, Len(s)))
    ELSE <<s[1]>> \o Canon(Tail(s))

\* the word being read, as a token list of none or one
Flush(word) == IF word = <<>> THEN <<>> ELSE <<Canon(word)>>

RECURSIVE WordTokenize(_, _, _)
\* nltk.word_tokenize from run i on, with the word being read: whitespace
\* separates tokens, every "!", "<" and ">" is a token of its own, letters
\* make words
WordTokenize(s, i, word) ==
    IF i > Len(s) THEN Flush(word)
    ELSE IF IsSpace(s[i].ch) THEN Flush(word) \o WordTokenize(s, i + 1, <<>>)
    ELSE IF s[i].ch \in {"!", "<", ">"}
        THEN Flush(word) \o [k \in 1..s[i].n |-> <<Run(s[i].ch, 1)>>]
                         \o WordTokenize(s, i + 1, <<>>)
    ELSE WordTokenize(s, i + 1, Append(word, s[i]))

\* word.isalnum()
IsAlnum(word) == word # <<>> /\ \A i \in 1..Len(word) : word[i].ch \in Letters

\* the members of stopwords.words("english") that the letters can spell
stop_words == {<<Run("a", 1)>>}

\* the members of string.punctuation
Punctuation == {<<Run("!", 1)>>, <<Run("<", 1)>>, <<Run(">", 1)>>}

\* ps.stem(word): no rule of the Porter stemmer applies to a word of a's and b's
Stem(word) == word

RECURSIVE Join(_)
\* " ".join(words)
Join(words) ==
    IF words = <<>> THEN <<>>
    ELSE IF Len(words) = 1 THEN words[1]
    ELSE words[1] \o <<Run(" ", 1)>> \o Join(Tail(words))

\* the body of transform_text (app.py 62-70, text_utils.py 25-34); nltk_ok is
\* whether the tokenizer's resources load, a LookupError otherwise
TransformBody(text, nltk_ok) ==
    IF text = <<>> THEN Value(<<>>)
    ELSE IF ~nltk_ok THEN Raise("LookupError")
    ELSE LET tokens == WordTokenize(Lower(text), 1, <<>>)
             alnum == SelectSeq(tokens, IsAlnum)
             kept == SelectSeq(alnum, LAMBDA w : w \notin stop_words /\ w \notin Punctuation)
             stems == [i \in 1..Len(kept) |-> Stem(kept[i])]
         IN Value(Join(stems))

\* transform_text of core/text_utils.py: an exception gives ""
transform_text(text, nltk_ok) ==
    IF TransformBody(text, nltk_ok).raised THEN Value(<<>>) ELSE TransformBody(text, nltk_ok)

\* transform_text of app.py
app_transform_text(text, nltk_ok) == TransformBody(text, nltk_ok)

PyFloat(hundredths) == [type |-> "float", val |-> hundredths]
Exc == [type |-> "Exception", val |-> <<>>]

\* (prediction, probability)
Prediction(label, confidence) == Value([label |-> label, confidence |-> confidence])
Unknown == Prediction(PyNone, PyFloat(0))

\* what a call gives and the external calls it made
Outcome(result, made) == [ret |-> result, calls |-> made]

\* an external call: the function called and the arguments it was given
Call(f, a) == [fn |-> f, args |-> a]

\* tfidf.transform([transformed]), model.predict(vector_input) and
\* model.predict_proba(vector_input) in turn (lines 57-59 of model_utils.py,
\* 231-233 of app.py); tfidf and model say what each of their methods does
\* when called: raise, or return
Classify(transformed, tfidf, model) ==
    LET vectorize == Call("tfidf.transform", <<PyList(<<PyStr(transformed)>>)>>)
        predict == Call("model.predict", <<tfidf.transform>>)
        predict_proba == Call("model.predict_proba", <<tfidf.transform>>)
    IN IF tfidf.transform = Exc
           THEN Outcome(Raise("transform"), <<vectorize>>)
       ELSE IF model.predict = Exc
           THEN Outcome(Raise("predict"), <<vectorize, predict>>)
       ELSE IF model.predict_proba = Exc
           THEN Outcome(Raise("predict_proba"), <<vectorize, predict, predict_proba>>)
       ELSE Outcome(Prediction(model.predict, model.predict_proba),
                    <<vectorize, predict, predict_proba>>)

MutPredictNoEmptyCheck(text, tfidf, model, nltk_ok) ==
    IF ~validate_text_input(text, PyInt(TEXT_MIN_LENGTH), PyInt(TEXT_MAX_LENGTH)).ok
        THEN Outcome(Unknown, <<>>)
    ELSE LET c == Classify(transform_text(text.val, nltk_ok).val, tfidf, model) IN
         IF c.ret.raised
             THEN Outcome(Unknown, c.calls \o <<Call("st.error", <<c.ret.val>>)>>)
         ELSE c

\* predict_spam(text, tfidf, model) of model_utils.py
predict_spam(text, tfidf, model, nltk_ok) ==
    IF ~validate_text_input(text, PyInt(TEXT_MIN_LENGTH), PyInt(TEXT_MAX_LENGTH)).ok
        THEN Outcome(Unknown, <<>>)
    ELSE IF transform_text(text.val, nltk_ok).val = <<>>
        THEN Outcome(Unknown, <<>>)
    ELSE LET c == Classify(transform_text(text.val, nltk_ok).val, tfidf, model) IN
         IF c.ret.raised
             THEN Outcome(Unknown, c.calls \o <<Call("st.error", <<c.ret.val>>)>>)
         ELSE c

\* predict_spam(text) of app.py, with the module's tfidf and model
app_predict_spam(text, tfidf, model, nltk_ok) ==
    IF text.type # "str" THEN Outcome(Raise("AttributeError"), <<>>)
    ELSE IF Strip(text.val) = <<>> THEN Outcome(Unknown, <<>>)
    ELSE LET transformed == app_transform_text(text.val, nltk_ok) IN
         IF transformed.raised THEN Outcome(transformed, <<>>)
         ELSE IF transformed.val = <<>> THEN Outcome(Unknown, <<>>)
         ELSE Classify(transformed.val, tfidf, model)

(***************************************************************************)
(* The calls of predict_spam that are checked.                             *)
(***************************************************************************)
PredictRuns ==
    {Run(" ", 1), Run("a", 1), Run("B", 1), Run("!", 1), Run("<", 1), Run(">", 1),
     Run("B", TEXT_MAX_LENGTH)}

PredictTexts == {PyStr(s) : s \in SeqsUpTo(PredictRuns, MaxRuns)} \cup {PyNone}

SparseMatrix == [type |-> "csr_matrix", val |-> <<>>]

Vectorizers == [transform : {SparseMatrix, Exc}]
Classifiers == [predict : {PyInt(0), PyInt(1), Exc},
                predict_proba : {PyFloat(50), PyFloat(97), Exc}]

PredictArgs ==
    [text : PredictTexts, tfidf : Vectorizers, model : Classifiers, nltk_ok : BOOLEAN]

PredictOps == {"model_utils.predict_spam", "app.predict_spam"}

InitPredict ==
    /\ pc = "call"
    /\ ret = PyNone
    /\ calls = <<>>
    /\ session_state = <<>>
    /\ op \in PredictOps
    /\ arg \in PredictArgs

PredictSpam ==
    /\ pc = "call" /\ op = "model_utils.predict_spam"
    /\ LET r == predict_spam(arg.text, arg.tfidf, arg.model, arg.nltk_ok) IN
        ret' = r.ret /\ calls' = r.calls
    /\ pc' = "done"
    /\ UNCHANGED <<session_state, op, arg>>

AppPredictSpam ==
    /\ pc = "call" /\ op = "app.predict_spam"
    /\ LET r == app_predict_spam(arg.text, arg.tfidf, arg.model, arg.nltk_ok) IN
        ret' = r.ret /\ calls' = r.calls
    /\ pc' = "done"
    /\ UNCHANGED <<session_state, op, arg>>

NextPredict == PredictSpam \/ AppPredictSpam

SpecPredict == InitPredict /\ [][NextPredict]_vars

(***************************************************************************)
(* extract_email_content on a structure in which a part may be among its   *)
(* own parts.  The parts are objects of a heap and "parts" holds their     *)
(* references; the interpreter raises RecursionError for a call deeper     *)
(* than its recursion limit.  Here calls is the log of the calls of        *)
(* extract_email_content, each with the depth of its frame.                *)
(***************************************************************************)
MaxNodes == 2
RecursionLimit == 4

RECURSIVE ExtractGraph(_, _, _, _)
RECURSIVE NestedGraphLoop(_, _, _, _, _)

\* the third for loop, on the references ids from the i-th on
NestedGraphLoop(impl, heap, ids, i, depth) ==
    IF i > Len(ids) THEN Outcome(Value(<<>>), <<>>)
    ELSE IF "parts" \in DOMAIN heap[ids[i]]
        THEN LET result == ExtractGraph(impl, heap, ids[i], depth + 1)
                 rest == NestedGraphLoop(impl, heap, ids, i + 1, depth)
             IN IF result.ret.raised \/ result.ret.val # <<>> THEN result
                ELSE Outcome(rest.ret, result.calls \o rest.calls)
    ELSE NestedGraphLoop(impl, heap, ids, i + 1, depth)

\* extract_email_content(payload) for the object id of the heap, in a frame
\* at the given depth
ExtractGraph(impl, heap, id, depth) ==
    LET this == [fn |-> "extract_email_content", args |-> <<id>>, depth |-> depth]
        payload == heap[id]
        parts == [i \in 1..Len(payload["parts"]) |-> heap[payload["parts"][i]]]
        plain == FirstPlain(parts, 1)
        html == FirstHtml(parts, 1)
        body ==
            IF "body" \in DOMAIN payload /\ HasData(payload)
            THEN Outcome(IF StartsWith(Get(payload, "mimeType", <<>>), TextHtml)
                         THEN CleanHtmlOf(decode_part(impl, payload))
                         ELSE decode_part(impl, payload), <<>>)
            ELSE IF "parts" \in DOMAIN payload
            THEN IF plain # 0 THEN Outcome(decode_part(impl, parts[plain]), <<>>)
                 ELSE IF html # 0
                     THEN Outcome(CleanHtmlOf(decode_part(impl, parts[html])), <<>>)
                 ELSE NestedGraphLoop(impl, heap, payload["parts"], 1, depth)
            ELSE Outcome(Value(<<>>), <<>>)
    IN IF depth > RecursionLimit THEN Outcome(Raise("RecursionError"), <<this>>)
       ELSE Outcome(IF impl = "gmail_utils" /\ body.ret.raised THEN Value(<<>>)
                    ELSE body.ret,
                    <<this>> \o body.calls)

\* the heaps: objects 1..n, each a text part or a multipart with up to two
\* references to objects of the heap, itself included
GraphNodes(n) ==
    {PlainHello, Mime(TextPlain) @@ BodyNoData}
    \cup {Mime(Multipart) @@ BodyNoData @@ Parts(ids) : ids \in SeqsUpTo(1..n, 2)}

Heaps == UNION {[1..n -> GraphNodes(n)] : n \in 1..MaxNodes}

InitGraph ==
    /\ pc = "call"
    /\ ret = PyNone
    /\ calls = <<>>
    /\ session_state = <<>>
    /\ op \in ExtractOps
    /\ arg \in Heaps

ExtractEmailContentGraph ==
    /\ pc = "call" /\ op = "gmail_utils.extract_email_content"
    /\ ret' = ExtractGraph("gmail_utils", arg, 1, 1).ret
    /\ calls' = ExtractGraph("gmail_utils", arg, 1, 1).calls
    /\ pc' = "done"
    /\ UNCHANGED <<session_state, op, arg>>

AppExtractEmailContentGraph ==
    /\ pc = "call" /\ op = "app.extract_email_content"
    /\ ret' = ExtractGraph("app", arg, 1, 1).ret
    /\ calls' = ExtractGraph("app", arg, 1, 1).calls
    /\ pc' = "done"
    /\ UNCHANGED <<session_state, op, arg>>

NextGraph == ExtractEmailContentGraph \/ AppExtractEmailContentGraph

SpecGraph == InitGraph /\ [][NextGraph]_vars

(***************************************************************************)
(* A session: predict_spam of model_utils.py called again and again with   *)
(* the tfidf and the model that load_models gave once.  Here calls is the  *)
(* log of the calls of predict_spam made so far, each with its text and    *)
(* what it returned.                                                       *)
(***************************************************************************)
MaxCalls == 3

SessionTexts ==
    {PyStr(<<Run("B", 1)>>), PyStr(<<Run("a", 1)>>), PyStr(<<Run("<", 1), Run("B", 1)>>),
     PyStr(<<>>), PyNone}

InitSession ==
    /\ pc = "idle"
    /\ op = "model_utils.predict_spam"
    /\ ret = PyNone
    /\ calls = <<>>
    /\ session_state = <<>>
    /\ arg \in [text : {PyNone}, tfidf : Vectorizers, model : Classifiers,
                nltk_ok : BOOLEAN]

\* a call that left its own result behind in the model
MutSessionPredictSpamLearns ==
    /\ pc \in {"idle", "done"}
    /\ Len(calls) < MaxCalls
    /\ \E text \in SessionTexts :
        LET r == predict_spam(text, arg.tfidf, arg.model, arg.nltk_ok) IN
            /\ arg' = [arg EXCEPT !.text = text,
                                  !.model.predict = IF @ = PyInt(0) THEN PyInt(1) ELSE @]
            /\ ret' = r.ret
            /\ calls' = Append(calls, [fn |-> "predict_spam", args |-> <<text>>,
                                       result |-> r.ret])
    /\ pc' = "done"
    /\ UNCHANGED <<session_state, op>>

\* one more call predict_spam(text, tfidf, model): the function assigns to no
\* attribute of tfidf or model and to no module variable
SessionPredictSpam ==
    /\ pc \in {"idle", "done"}
    /\ Len(calls) < MaxCalls
    /\ \E text \in SessionTexts :
        LET r == predict_spam(text, arg.tfidf, arg.model, arg.nltk_ok) IN
            /\ arg' = [arg EXCEPT !.text = text]
            /\ ret' = r.ret
            /\ calls' = Append(calls, [fn |-> "predict_spam", args |-> <<text>>,
                                       result |-> r.ret])
    /\ pc' = "done"
    /\ UNCHANGED <<session_state, op>>

NextSession == SessionPredictSpam

SpecSession == InitSession /\ [][NextSession]_vars

(***************************************************************************)
(* core/text_utils.py clean_text_for_model and extract_links, with their   *)
(* older copies in app.py.  A str is a sequence of one-character strings;  *)
(* each regular expression is matched as re matches it: leftmost first,    *)
(* every repetition as long as it can be.                                  *)
(***************************************************************************)
MaxFrags == 3

\* the character classes of the patterns
InClass(cls, c) ==
    CASE cls = "\\S" -> ~IsSpace(c)
      [] cls = "\\s" -> IsSpace(c)
      [] cls = "[^;]" -> c # ";"
      [] cls = "[A-Za-z0-9+/=]" -> InB64Alphabet(c) \/ c = "="
      [] cls = "[^\\s'\"<>]" -> ~IsSpace(c) /\ c \notin {"'", "\"", "<", ">"}
      [] cls = "[^>]" -> c # ">"

RECURSIVE SpanEnd(_, _, _)
\* cls* from character i on: the index of the last character it takes, i - 1
\* when it takes none
SpanEnd(cls, s, i) ==
    IF i <= Len(s) /\ InClass(cls, s[i]) THEN SpanEnd(cls, s, i + 1) ELSE i - 1

\* cls+ from character i on: the index of the last character, 0 for no match
Plus(cls, s, i) == IF SpanEnd(cls, s, i) >= i THEN SpanEnd(cls, s, i) ELSE 0

\* the literal lit at character i
At(s, i, lit) == i <= Len(s) /\ StartsWith(SubSeq(s, i, Len(s)), lit)

\* re.IGNORECASE, for the letters of "cid:"
CaseFold(s) ==
    [i \in 1..Len(s) |-> CASE s[i] = "C" -> "c" [] s[i] = "I" -> "i"
                           [] s[i] = "D" -> "d" [] OTHER -> s[i]]

Http == <<"h", "t", "t", "p", ":", "/", "/">>
Https == <<"h", "t", "t", "p", "s", ":", "/", "/">>
Www == <<"w", "w", "w", ".">>
DataImage == <<"d", "a", "t", "a", ":", "i", "m", "a", "g", "e", "/">>
Base64Mark == <<";", "b", "a", "s", "e", "6", "4", ",">>
Cid == <<"c", "i", "d", ":">>

\* r"http[s]?://\S+" at character i: the index of the match's last character,
\* 0 for no match
MatchUrl(s, i) ==
    IF At(s, i, Https) THEN Plus("\\S", s, i + Len(Https))
    ELSE IF At(s, i, Http) THEN Plus("\\S", s, i + Len(Http))
    ELSE 0

\* r"www\.\S+"
MatchWww(s, i) == IF At(s, i, Www) THEN Plus("\\S", s, i + Len(Www)) ELSE 0

\* r"data:image\/[^;]+;base64,[A-Za-z0-9+/=]+": [^;]+ ends at the first ";"
MatchDataUri(s, i) ==
    IF ~At(s, i, DataImage) THEN 0
    ELSE LET semi == Plus("[^;]", s, i + Len(DataImage)) + 1
         IN IF semi > 1 /\ At(s, semi, Base64Mark)
            THEN Plus("[A-Za-z0-9+/=]", s, semi + Len(Base64Mark))
            ELSE 0

\* r"cid:[^\s'\"<>]+" with re.IGNORECASE
MatchCid(s, i) ==
    IF At(CaseFold(s), i, Cid) THEN Plus("[^\\s'\"<>]", s, i + Len(Cid)) ELSE 0

MutMatchTagNotEmpty(s, i) ==
    IF s[i] = "<" /\ SpanEnd("[^>]", s, i + 1) < Len(s) /\ SpanEnd("[^>]", s, i + 1) > i
        THEN SpanEnd("[^>]", s, i + 1) + 1
    ELSE 0

\* r"<[^>]*>": a "<" and everything up to the next ">"
MatchTag(s, i) ==
    IF s[i] = "<" /\ SpanEnd("[^>]", s, i + 1) < Len(s)
        THEN SpanEnd("[^>]", s, i + 1) + 1
    ELSE 0

\* r"\s+"
MatchSpaces(s, i) == Plus("\\s", s, i)

MatchEnd(pattern, s, i) ==
    CASE pattern = "url" -> MatchUrl(s, i)
      [] pattern = "www" -> MatchWww(s, i)
      [] pattern = "data" -> MatchDataUri(s, i)
      [] pattern = "cid" -> MatchCid(s, i)
      [] pattern = "tag" -> MatchTag(s, i)
      [] pattern = "spaces" -> MatchSpaces(s, i)

RECURSIVE ReSub(_, _, _)
\* re.sub(pattern, " ", s) from character i on
ReSub(pattern, s, i) ==
    IF i > Len(s) THEN <<>>
    ELSE IF MatchEnd(pattern, s, i) > 0
        THEN <<" ">> \o ReSub(pattern, s, MatchEnd(pattern, s, i) + 1)
    ELSE <<s[i]>> \o ReSub(pattern, s, i + 1)

RECURSIVE ReFindAll(_, _, _)
\* re.findall(pattern, s) from character i on
ReFindAll(pattern, s, i) ==
    IF i > Len(s) THEN <<>>
    ELSE IF MatchEnd(pattern, s, i) > 0
        THEN <<PyStr(SubSeq(s, i, MatchEnd(pattern, s, i)))>>
             \o ReFindAll(pattern, s, MatchEnd(pattern, s, i) + 1)
    ELSE ReFindAll(pattern, s, i + 1)

RECURSIVE StripChars(_)
\* s.strip() of a sequence of characters
StripChars(s) ==
    IF s # <<>> /\ IsSpace(s[1]) THEN StripChars(Tail(s))
    ELSE IF s # <<>> /\ IsSpace(s[Len(s)]) THEN StripChars(SubSeq(s, 1, Len(s) - 1))
    ELSE s

\* the six substitutions of clean_text_for_model and the final strip
CleanSteps(s) ==
    LET no_url == ReSub("url", s, 1)
        no_www == ReSub("www", no_url, 1)
        no_data == ReSub("data", no_www, 1)
        no_cid == ReSub("cid", no_data, 1)
        no_tag == ReSub("tag", no_cid, 1)
    IN StripChars(ReSub("spaces", no_tag, 1))

\* clean_text_for_model(text) of core/text_utils.py, for a str or None
clean_text_for_model(text) ==
    IF text.type # "str" \/ text.val = <<>> THEN text ELSE PyStr(CleanSteps(text.val))

\* clean_text_for_model(text) of app.py, for a str or None
app_clean_text_for_model(text) ==
    IF text.type # "str" \/ text.val = <<>> THEN text ELSE PyStr(CleanSteps(text.val))

RECURSIVE Distinct(_)
Distinct(links) ==
    IF links = <<>> THEN <<>>
    ELSE <<Head(links)>> \o Distinct(SelectSeq(Tail(links), LAMBDA l : l # Head(links)))

MutExtractLinksDistinct(text) ==
    IF text.type # "str" \/ text.val = <<>> THEN PyList(<<>>)
    ELSE PyList(Distinct(ReFindAll("url", text.val, 1)))

\* extract_links(text) of core/text_utils.py, for a str or None
extract_links(text) ==
    IF text.type # "str" \/ text.val = <<>> THEN PyList(<<>>)
    ELSE PyList(ReFindAll("url", text.val, 1))

(***************************************************************************)
(* The calls of the text cleaning that are checked: texts of up to         *)
(* MaxFrags fragments for clean_text_for_model, of up to MaxFrags + 2      *)
(* fragments of links and words for extract_links, the examples of the     *)
(* documentation, and None.  A call of clean_text_for_model is made on a   *)
(* text or on what the call before returned.                               *)
(***************************************************************************)
CleanFrags ==
    {Http, Https, Www, DataImage, Base64Mark, Cid,
     <<"<">>, <<">">>, <<";">>, <<" ">>, <<"a">>}

RECURSIVE Concat(_)
Concat(frags) == IF frags = <<>> THEN <<>> ELSE Head(frags) \o Concat(Tail(frags))

\* "Check http://evil.com now <b>bold</b>"
ExampleCheck ==
    <<"C", "h", "e", "c", "k", " ", "h", "t", "t", "p", ":", "/", "/", "e",
      "v", "i", "l", ".", "c", "o", "m", " ", "n", "o", "w", " ", "<", "b",
      ">", "b", "o", "l", "d", "<", "/", "b", ">">>

\* "see http://a.com and http://a.com"
ExampleLinks ==
    <<"s", "e", "e", " ", "h", "t", "t", "p", ":", "/", "/", "a", ".", "c",
      "o", "m", " ", "a", "n", "d", " ", "h", "t", "t", "p", ":", "/", "/",
      "a", ".", "c", "o", "m">>

\* "data:image/<;>;base64,A"
ExampleDataUri ==
    <<"d", "a", "t", "a", ":", "i", "m", "a", "g", "e", "/", "<", ";", ">",
      ";", "b", "a", "s", "e", "6", "4", ",", "A">>

CleanTexts ==
    {PyStr(Concat(f)) : f \in SeqsUpTo(CleanFrags, MaxFrags)}
        \cup {PyStr(ExampleCheck), PyStr(ExampleLinks), PyStr(ExampleDataUri), PyNone}

LinkFrags == {Http, Https, <<" ">>, <<"a">>, <<"b">>}

LinkTexts ==
    {PyStr(Concat(f)) : f \in SeqsUpTo(LinkFrags, MaxFrags + 2)}
        \cup {PyStr(ExampleLinks), PyNone}

CleanOps == {"clean_text_for_model", "app.clean_text_for_model", "extract_links"}

InitClean ==
    /\ pc = "call"
    /\ ret = PyNone
    /\ calls = <<>>
    /\ session_state = <<>>
    /\ op \in CleanOps
    /\ arg \in IF op = "extract_links" THEN LinkTexts ELSE CleanTexts

CleanTextForModel ==
    /\ pc \in {"call", "done"}
    /\ op = "clean_text_for_model"
    /\ pc' = IF pc = "call" THEN "done" ELSE "again"
    /\ arg' = IF pc = "call" THEN arg ELSE ret
    /\ ret' = clean_text_for_model(arg')
    /\ UNCHANGED <<session_state, op, calls>>

AppCleanTextForModel ==
    /\ pc \in {"call", "done"}
    /\ op = "app.clean_text_for_model"
    /\ pc' = IF pc = "call" THEN "done" ELSE "again"
    /\ arg' = IF pc = "call" THEN arg ELSE ret
    /\ ret' = app_clean_text_for_model(arg')
    /\ UNCHANGED <<session_state, op, calls>>

ExtractLinks ==
    /\ pc = "call"
    /\ op = "extract_links"
    /\ pc' = "done"
    /\ ret' = extract_links(arg)
    /\ UNCHANGED <<session_state, op, arg, calls>>

NextClean == CleanTextForModel \/ AppCleanTextForModel \/ ExtractLinks

SpecClean == InitClean /\ [][NextClean]_vars

(***************************************************************************)
(* gmail_utils.py fetch_emails.  What the Gmail service does is part of    *)
(* the call: whether gmail_authenticate and messages().list raise or       *)
(* return, and for each listed message whether messages().get raises or    *)
(* returns its headers and a payload, of which the model keeps the text    *)
(* that extract_email_content gives for it.  Texts are sequences of runs.  *)
(***************************************************************************)
MaxMessages == 3

\* the text of runs of a sequence of characters
Runs(chars) == [i \in 1..Len(chars) |-> Run(chars[i], 1)]

NoSubject == PyStr(Runs(<<"N", "o", " ", "S", "u", "b", "j", "e", "c", "t">>))
UnknownSender ==
    PyStr(Runs(<<"U", "n", "k", "n", "o", "w", "n", " ", "S", "e", "n", "d", "e", "r">>))
UnknownDate == PyStr(Runs(<<"U", "n", "k", "n", "o", "w", "n", " ", "D", "a", "t", "e">>))

RECURSIVE HeaderDict(_)
\* {h["name"]: h["value"] for h in headers}: the last value of a name stays
HeaderDict(headers) ==
    IF headers = <<>> THEN <<>>
    ELSE (headers[Len(headers)].name :> headers[Len(headers)].value)
             @@ HeaderDict(SubSeq(headers, 1, Len(headers) - 1))

RECURSIVE CollapseSpaces(_)
\* re.sub(r"\s+", " ", text)
CollapseSpaces(s) ==
    IF s = <<>> THEN <<>>
    ELSE IF IsSpace(Head(s).ch) THEN <<Run(" ", 1)>> \o CollapseSpaces(LStrip(Tail(s)))
    ELSE <<Head(s)>> \o CollapseSpaces(Tail(s))

\* clean_text_for_display(text)
clean_text_for_display(text) ==
    IF text = <<>> THEN text ELSE Strip(CollapseSpaces(text))

\* clean_text_for_model(text) for a text of letters and whitespace, in which
\* only the last substitution, of whitespace, finds a match
clean_text_for_model_plain(text) ==
    IF text = <<>> THEN text ELSE Strip(CollapseSpaces(text))

\* extract_links(text) for a text of letters and whitespace: no match
extract_links_plain(text) == PyList(<<>>)

\* lines 170-188: the record built from what messages().get returned
EmailData(msg_data) ==
    LET headers == HeaderDict(msg_data.headers)
        raw_content == IF msg_data.content.raised THEN <<>> ELSE msg_data.content.val
    IN PyDict([f \in {"subject", "sender", "date", "raw_content", "cleaned_content",
                      "links"} |->
                 CASE f = "subject" -> Get(headers, "Subject", NoSubject)
                   [] f = "sender" -> Get(headers, "From", UnknownSender)
                   [] f = "date" -> Get(headers, "Date", UnknownDate)
                   [] f = "raw_content" -> PyStr(clean_text_for_display(raw_content))
                   [] f = "cleaned_content" -> PyStr(clean_text_for_model_plain(raw_content))
                   [] f = "links" -> extract_links_plain(raw_content)])

RECURSIVE MutFetchLoopGivesUp(_, _, _, _)
MutFetchLoopGivesUp(messages, idx, emails, made) ==
    IF idx > Len(messages) THEN Outcome(emails, made)
    ELSE LET get == Call("messages.get", <<idx>>)
             warning == Call("st.warning", <<idx>>)
         IN IF messages[idx] = Exc
                THEN Outcome(emails, made \o <<get, warning>>)
            ELSE IF validate_email_data(EmailData(messages[idx])).ok
                THEN MutFetchLoopGivesUp(messages, idx + 1,
                                         Append(emails, EmailData(messages[idx])),
                                         Append(made, get))
            ELSE MutFetchLoopGivesUp(messages, idx + 1, emails, made \o <<get, warning>>)

RECURSIVE FetchLoop(_, _, _, _)
\* the for loop of fetch_emails from messages[idx] on, with the emails it has
\* and the calls made so far
FetchLoop(messages, idx, emails, made) ==
    IF idx > Len(messages) THEN Outcome(emails, made)
    ELSE LET get == Call("messages.get", <<idx>>)
             warning == Call("st.warning", <<idx>>)
         IN IF messages[idx] = Exc
                THEN FetchLoop(messages, idx + 1, emails, made \o <<get, warning>>)
            ELSE IF validate_email_data(EmailData(messages[idx])).ok
                THEN FetchLoop(messages, idx + 1,
                               Append(emails, EmailData(messages[idx])),
                               Append(made, get))
            ELSE FetchLoop(messages, idx + 1, emails, made \o <<get, warning>>)

\* (emails, next_page_token)
Fetched(emails, next_page_token) ==
    Value([emails |-> PyList(emails), next_page_token |-> next_page_token])

\* fetch_emails(page_token): authenticate is what gmail_authenticate does,
\* list what messages().list(...).execute() does
fetch_emails(authenticate, list) ==
    IF authenticate = Exc
        THEN Outcome(Fetched(<<>>, PyNone),
                     <<Call("gmail_authenticate", <<>>), Call("st.error", <<>>)>>)
    ELSE IF list = Exc
        THEN Outcome(Fetched(<<>>, PyNone),
                     <<Call("gmail_authenticate", <<>>), Call("messages.list", <<>>),
                       Call("st.error", <<>>)>>)
    ELSE LET loop == FetchLoop(Get(list, "messages", <<>>), 1, <<>>,
                               <<Call("gmail_authenticate", <<>>),
                                 Call("messages.list", <<>>)>>)
         IN Outcome(Fetched(loop.ret, Get(list, "nextPageToken", PyNone)), loop.calls)

(***************************************************************************)
(* The calls of fetch_emails that are checked.                             *)
(***************************************************************************)
Header(n, v) == [name |-> n, value |-> PyStr(Long(v))]

HeaderLists ==
    {<<>>,
     <<Header("Subject", 1)>>,
     <<Header("From", 1), Header("Date", 1)>>,
     <<Header("Subject", 1), Header("From", 2), Header("Date", 3), Header("Subject", 4)>>}

Contents == {<<>>, <<Run(" ", 2), Run("a", 1), Run(" ", 1)>>, Long(EMAIL_MAX_SIZE + 1)}

\* what messages().get does for a message: raise, or return the message
Messages == {Exc} \cup [headers : HeaderLists, content : {Value(c) : c \in Contents}]

NextToken == PyStr(Long(1))

ListResults ==
    {<<>>, "nextPageToken" :> NextToken}
    \cup {("messages" :> m) @@ t : m \in SeqsUpTo(Messages, MaxMessages),
                                   t \in {<<>>, "nextPageToken" :> NextToken}}

Service == [type |-> "Resource", val |-> <<>>]

FetchArgs == [authenticate : {Service, Exc}, list : ListResults \cup {Exc}]

InitFetch ==
    /\ pc = "call"
    /\ op = "fetch_emails"
    /\ ret = PyNone
    /\ calls = <<>>
    /\ session_state = <<>>
    /\ arg \in FetchArgs

FetchEmails ==
    /\ pc = "call" /\ op = "fetch_emails"
    /\ ret' = fetch_emails(arg.authenticate, arg.list).ret
    /\ calls' = fetch_emails(arg.authenticate, arg.list).calls
    /\ pc' = "done"
    /\ UNCHANGED <<session_state, op, arg>>

NextFetch == FetchEmails

SpecFetch == InitFetch /\ [][NextFetch]_vars

(***************************************************************************)
(* app.py: the pagination of gmail_analysis_page.  Every run of the script *)
(* calls initialize_session_state and then the page, which fetches the     *)
(* page of the current token and handles the button that was clicked, if   *)
(* one was.  Here op is the button, arg what fetch_emails returned to the  *)
(* run and ret the token the run fetched with.                             *)
(***************************************************************************)
MaxPages == 4

PageTokens == {PyStr(Long(1)), PyStr(Long(2))}

\* what fetch_emails returns to a run: whether there are emails, and the token
FetchResults == [emails : BOOLEAN, next_token : PageTokens \cup {PyNone, PyStr(<<>>)}]

\* the truth value of a token
Truthy(v) == v.type = "str" /\ v.val # <<>>

\* initialize_session_state()
initialize_session_state(state) ==
    LET with_stack == IF "page_token_stack" \in DOMAIN state THEN state
                      ELSE state @@ ("page_token_stack" :> <<PyNone>>)
    IN IF "current_page_index" \in DOMAIN with_stack THEN with_stack
       ELSE with_stack @@ ("current_page_index" :> 0)

\* line 274: page_token_stack[current_page_index]
CurrentToken(state) == state["page_token_stack"][state["current_page_index"] + 1]

\* lines 345-348: the Previous button, clicked
Previous(state) ==
    IF state["current_page_index"] > 0
        THEN [state EXCEPT !["current_page_index"] = @ - 1]
    ELSE state

MutNextAlwaysAppends(state, next_token) ==
    IF Truthy(next_token)
        THEN [state EXCEPT !["page_token_stack"] = Append(@, next_token),
                           !["current_page_index"] = @ + 1]
    ELSE state

\* lines 352-358: the Next button, clicked
NextPage(state, next_token) ==
    IF Truthy(next_token)
        THEN LET stack == state["page_token_stack"]
                 appended == IF state["current_page_index"] = Len(stack) - 1
                             THEN Append(stack, next_token) ELSE stack
             IN [state EXCEPT !["page_token_stack"] = appended,
                              !["current_page_index"] = @ + 1]
    ELSE state

InitPages ==
    /\ pc = "start"
    /\ op = "none"
    /\ arg = PyNone
    /\ ret = PyNone
    /\ calls = <<>>
    /\ session_state = <<>>

\* the first run of the script, up to initialize_session_state
InitializeSessionState ==
    /\ pc = "start"
    /\ session_state' = initialize_session_state(session_state)
    /\ pc' = "page"
    /\ UNCHANGED <<op, arg, ret, calls>>

\* a run of the page with no button clicked
Render ==
    /\ pc = "page"
    /\ \E fetched \in FetchResults :
        /\ arg' = fetched
        /\ ret' = CurrentToken(initialize_session_state(session_state))
        /\ session_state' = initialize_session_state(session_state)
    /\ op' = "none"
    /\ UNCHANGED <<pc, calls>>

\* a run of the page after a click on Previous
ClickPrevious ==
    /\ pc = "page"
    /\ \E fetched \in FetchResults :
        /\ arg' = fetched
        /\ ret' = CurrentToken(initialize_session_state(session_state))
        /\ session_state' = IF fetched.emails
                            THEN Previous(initialize_session_state(session_state))
                            ELSE initialize_session_state(session_state)
    /\ op' = "Previous"
    /\ UNCHANGED <<pc, calls>>

\* a run of the page after a click on Next
ClickNext ==
    /\ pc = "page"
    /\ \E fetched \in FetchResults :
        /\ arg' = fetched
        /\ ret' = CurrentToken(initialize_session_state(session_state))
        /\ session_state' = IF fetched.emails
                            THEN NextPage(initialize_session_state(session_state),
                                          fetched.next_token)
                            ELSE initialize_session_state(session_state)
    /\ Len(session_state'["page_token_stack"]) <= MaxPages
    /\ op' = "Next"
    /\ UNCHANGED <<pc, calls>>

NextPages == InitializeSessionState \/ Render \/ ClickPrevious \/ ClickNext

SpecPages == InitPages /\ [][NextPages]_vars

(***************************************************************************)
(* gmail_authenticate of gmail_utils.py and of app.py.  The environment of *)
(* a call says whether the token file and the credentials file exist and   *)
(* what each external call does: raise, or return.  Credentials are        *)
(* records of their origin and of the attributes the function reads.       *)
(***************************************************************************)
Creds(o, v, e, r) == [origin |-> o, valid |-> v, expired |-> e, refresh_token |-> r]

\* what Credentials.from_authorized_user_file can return: valid credentials
\* are not expired
LoadedCreds ==
    {Creds("loaded", v, e, r) : v \in BOOLEAN, e \in BOOLEAN, r \in BOOLEAN} \
        {Creds("loaded", TRUE, TRUE, r) : r \in BOOLEAN}

\* creds after a creds.refresh(Request()) that returned
Refreshed(creds) == [creds EXCEPT !.origin = "refreshed", !.valid = TRUE, !.expired = FALSE]

\* what flow.run_local_server(port=0) returns
NewCreds == Creds("new", TRUE, FALSE, TRUE)

\* st.stop() ends the run of the script
Stop == Raise("StopException")

\* the progress of a call: the local creds, the calls made, and the result
\* once the call has ended
Progress(c, made, result) == [creds |-> c, calls |-> made, ended |-> result]
Running == [type |-> "running", val |-> <<>>]

\* lines 27-35 of gmail_utils.py: the token file
LoadToken(env) ==
    LET load == Call("Credentials.from_authorized_user_file", <<>>)
    IN IF ~env.token_exists THEN Progress(PyNone, <<>>, Running)
       ELSE IF env.load = Exc
           THEN Progress(PyNone, <<load, Call("st.warning", <<>>)>>, Running)
       ELSE Progress(env.load, <<load>>, Running)

\* not creds or not creds.valid
NeedsCreds(creds) == creds = PyNone \/ ~creds.valid

\* creds and creds.expired and creds.refresh_token
Refreshable(creds) == creds # PyNone /\ creds.expired /\ creds.refresh_token

\* lines 38-46 of gmail_utils.py: the refresh
RefreshToken(env, p) ==
    LET refresh == Call("creds.refresh", <<p.creds>>)
    IN IF ~Refreshable(p.creds) THEN p
       ELSE IF env.refresh_ok
           THEN Progress(Refreshed(p.creds), Append(p.calls, refresh), Running)
       ELSE Progress(PyNone, p.calls \o <<refresh, Call("st.warning", <<>>)>>, Running)

\* lines 49-61: the new authorization
Authorize(env, p) ==
    LET exists == Call("os.path.exists", <<"credentials_file">>)
        flow == Call("flow.run_local_server", <<>>)
        stop == <<Call("st.error", <<>>), Call("st.stop", <<>>)>>
    IN IF ~env.creds_exists THEN Progress(p.creds, p.calls \o <<exists>> \o stop, Stop)
       ELSE IF env.flow_ok
           THEN Progress(NewCreds, p.calls \o <<exists, flow>>, Running)
       ELSE Progress(p.creds, p.calls \o <<exists, flow>> \o stop, Stop)

\* lines 63-69 of gmail_utils.py: the token file is written, or a warning logged
SaveToken(env, p) ==
    IF env.write_ok THEN Progress(p.creds, Append(p.calls, Call("token.write", <<p.creds>>)), Running)
    ELSE Progress(p.creds, Append(p.calls, Call("log_warning", <<>>)), Running)

\* lines 71-78 of gmail_utils.py: build("gmail", "v1", credentials=creds)
BuildService(env, p) ==
    LET build == Call("build", <<p.creds>>)
    IN IF env.build_ok
           THEN Outcome(Value([type |-> "Resource", val |-> <<p.creds>>]),
                        Append(p.calls, build))
       ELSE Outcome(Stop, p.calls \o <<build, Call("st.error", <<>>), Call("st.stop", <<>>)>>)

\* gmail_authenticate() of gmail_utils.py
gmail_authenticate(env) ==
    LET loaded == LoadToken(env)
        refreshed == RefreshToken(env, loaded)
        authorized == IF refreshed.creds = PyNone THEN Authorize(env, refreshed)
                      ELSE refreshed
    IN IF ~NeedsCreds(loaded.creds) THEN BuildService(env, loaded)
       ELSE IF authorized.ended # Running THEN Outcome(authorized.ended, authorized.calls)
       ELSE BuildService(env, SaveToken(env, authorized))

\* gmail_authenticate() of app.py: no call is inside a try
app_gmail_authenticate(env) ==
    LET load == Call("Credentials.from_authorized_user_file", <<>>)
        loaded == IF env.token_exists THEN Progress(env.load, <<load>>, Running)
                  ELSE Progress(PyNone, <<>>, Running)
        refresh == Call("creds.refresh", <<loaded.creds>>)
        authorized ==
            IF Refreshable(loaded.creds)
            THEN IF env.refresh_ok
                 THEN Progress(Refreshed(loaded.creds), Append(loaded.calls, refresh), Running)
                 ELSE Progress(loaded.creds, Append(loaded.calls, refresh), Raise("RefreshError"))
            ELSE IF env.creds_exists /\ ~env.flow_ok
                 THEN Progress(loaded.creds,
                               loaded.calls \o <<Call("os.path.exists", <<"credentials_file">>),
                                                 Call("flow.run_local_server", <<>>)>>,
                               Raise("FlowError"))
            ELSE Authorize(env, loaded)
        build == Call("build", <<authorized.creds>>)
    IN IF env.token_exists /\ env.load = Exc THEN Outcome(Raise("ValueError"), <<load>>)
       ELSE IF ~NeedsCreds(loaded.creds)
           THEN IF env.build_ok
                THEN Outcome(Value([type |-> "Resource", val |-> <<loaded.creds>>]),
                             Append(loaded.calls, Call("build", <<loaded.creds>>)))
                ELSE Outcome(Raise("BuildError"),
                             Append(loaded.calls, Call("build", <<loaded.creds>>)))
       ELSE IF authorized.ended # Running THEN Outcome(authorized.ended, authorized.calls)
       ELSE IF ~env.write_ok THEN Outcome(Raise("OSError"), authorized.calls)
       ELSE IF env.build_ok
           THEN Outcome(Value([type |-> "Resource", val |-> <<authorized.creds>>]),
                        authorized.calls \o <<Call("token.write", <<authorized.creds>>), build>>)
       ELSE Outcome(Raise("BuildError"),
                    authorized.calls \o <<Call("token.write", <<authorized.creds>>), build>>)

(***************************************************************************)
(* The calls of gmail_authenticate that are checked.                       *)
(***************************************************************************)
AuthEnvs ==
    [token_exists : BOOLEAN, load : LoadedCreds \cup {Exc}, refresh_ok : BOOLEAN,
     creds_exists : BOOLEAN, flow_ok : BOOLEAN, write_ok : BOOLEAN, build_ok : BOOLEAN]

AuthOps == {"gmail_utils.gmail_authenticate", "app.gmail_authenticate"}

InitAuth ==
    /\ pc = "call"
    /\ ret = PyNone
    /\ calls = <<>>
    /\ session_state = <<>>
    /\ op \in AuthOps
    /\ arg \in AuthEnvs

GmailAuthenticate ==
    /\ pc = "call" /\ op = "gmail_utils.gmail_authenticate"
    /\ ret' = gmail_authenticate(arg).ret
    /\ calls' = gmail_authenticate(arg).calls
    /\ pc' = "done"
    /\ UNCHANGED <<session_state, op, arg>>

AppGmailAuthenticate ==
    /\ pc = "call" /\ op = "app.gmail_authenticate"
    /\ ret' = app_gmail_authenticate(arg).ret
    /\ calls' = app_gmail_authenticate(arg).calls
    /\ pc' = "done"
    /\ UNCHANGED <<session_state, op, arg>>

NextAuth == GmailAuthenticate \/ AppGmailAuthenticate

SpecAuth == InitAuth /\ [][NextAuth]_vars

(***************************************************************************)
(* Claims about the validation layer, checked under SpecValidate.          *)
(***************************************************************************)
Returned(f) == pc = "done" /\ op = f

Passes(e) == validate_email_data(e).ok

\* the number K of records of a list that fail validate_email_data
Failing(emails) == Cardinality({i \in 1..Len(emails) : ~Passes(emails[i])})

\* C1: a non-empty batch of N records of which K fail, 0 < K < N, is accepted:
\* the verdict is True, the survivors are exactly the records that pass, in
\* their original order, and the message states the skipped count K.
C1_PartialBatchKeepsSurvivors ==
    (Returned("validate_batch_emails") /\ arg.type = "list"
        /\ 0 < Failing(arg.val) /\ Failing(arg.val) < Len(arg.val))
    => /\ ret.ok = TRUE
       /\ ret.valid_emails = SelectSeq(arg.val, Passes)
       /\ Len(ret.valid_emails) = Len(arg.val) - Failing(arg.val)
       /\ ret.reason = <<"Validated ", Fmt(Len(arg.val) - Failing(arg.val)),
                         " email(s), skipped ", Fmt(Failing(arg.val)), " invalid email(s)">>

\* a batch of three with one invalid record between two different valid ones
C1_Witness ==
    /\ Returned("validate_batch_emails")
    /\ arg = PyList(<<GoodB, BadSize, GoodA>>)
    /\ ret.valid_emails = <<GoodB, GoodA>>

\* C2: the verdict is False, with no survivors, exactly when the input is no
\* list, is the empty list, or all its N >= 1 records fail (the reason then
\* reports all N); in every other case it is True with a non-empty survivor list.
C2_BatchRejectedOnlyInThreeCases ==
    Returned("validate_batch_emails") =>
        IF arg.type # "list" \/ Len(arg.val) = 0 \/ Failing(arg.val) = Len(arg.val)
        THEN /\ ret.ok = FALSE
             /\ ret.valid_emails = <<>>
             /\ ret.reason # <<>>
             /\ (arg.type = "list" /\ Len(arg.val) >= 1) =>
                    ret.reason = <<"All ", Fmt(Len(arg.val)), " emails failed validation">>
        ELSE ret.ok = TRUE /\ ret.valid_emails # <<>>

\* a batch of two records that both fail
C2_Witness ==
    /\ Returned("validate_batch_emails")
    /\ arg = PyList(<<BadSize, BadMissing>>)
    /\ ret = BatchResult(FALSE, <<"All ", "2", " emails failed validation">>, <<>>)

EmptyReason == <<"Text cannot be empty or contain only whitespace">>

\* C6: a string whose trimmed content is empty, checked with the configured
\* bounds (1, 100000) and not longer than the maximum, is rejected with the
\* empty/whitespace-only reason and not with the too-short reason.
C6_EmptyTextGetsEmptyReason ==
    (Returned("validate_text_input") /\ arg.text.type = "str"
        /\ Strip(arg.text.val) = <<>>
        /\ arg.min_length = PyInt(TEXT_MIN_LENGTH) /\ arg.max_length = PyInt(TEXT_MAX_LENGTH)
        /\ StrLen(arg.text.val) <= TEXT_MAX_LENGTH)
    => ret = Result(FALSE, EmptyReason)

\* the conditions under which a text is accepted
Accepted(a) ==
    /\ a.text.type = "str"
    /\ a.min_length.type = "int" /\ a.max_length.type = "int"
    /\ StrLen(Strip(a.text.val)) >= a.min_length.val
    /\ StrLen(a.text.val) <= a.max_length.val
    /\ Strip(a.text.val) # <<>>

\* C7: validate_text_input returns (True, "") if and only if the text is a
\* string, its trimmed length is >= min_length, its raw length is <= max_length
\* and its trimmed content is non-empty; otherwise (False, non-empty reason).
C7_TextAcceptedIff ==
    Returned("validate_text_input") =>
        /\ ret.ok \in BOOLEAN
        /\ Accepted(arg) <=> ret = Result(TRUE, <<>>)
        /\ ~Accepted(arg) => (ret.ok = FALSE /\ ret.reason # <<>>)

\* a text whose raw length exceeds the maximum while its trimmed length does not
C7_Witness ==
    /\ Returned("validate_text_input")
    /\ arg.text = PyStr(<<Run(" ", 1), Run("a", 1), Run(" ", 1)>>)
    /\ arg.min_length = PyInt(1) /\ arg.max_length = PyInt(2)
    /\ ret = Result(FALSE, <<"Text exceeds maximum length of ", "2", " characters">>)

FieldOK(d, f) == f \in DOMAIN d /\ d[f].type = "str"

\* the first of subject, sender, raw_content, cleaned_content that is missing
\* or no string
FirstFailing(d) ==
    required_fields[CHOOSE i \in 1..4 :
        /\ ~FieldOK(d, required_fields[i])
        /\ \A j \in 1..(i - 1) : FieldOK(d, required_fields[j])]

EmailVerdict(e, r) ==
    IF e.type # "dict" THEN r.ok = FALSE /\ r.reason # <<>>
    ELSE IF \E f \in {"subject", "sender", "raw_content", "cleaned_content"} : ~FieldOK(e.val, f)
        THEN /\ r.ok = FALSE
             /\ r.reason = IF FirstFailing(e.val) \in DOMAIN e.val
                           THEN <<"Field '", FirstFailing(e.val), "' must be a string">>
                           ELSE <<"Email missing required field: ", FirstFailing(e.val)>>
    ELSE IF StrLen(e.val["raw_content"].val) <= EMAIL_MAX_SIZE
        THEN r = Result(TRUE, <<>>)
        ELSE r.ok = FALSE /\ r.reason # <<>>

Extracted == pc = "done" /\ op \in ExtractOps

ImplOf(o) == IF o = "gmail_utils.extract_email_content" THEN "gmail_utils" ELSE "app"

\* what decoding part p gives the running implementation
Decoded(p) == decode_part(ImplOf(op), p)

HasParts(p) == "parts" \in DOMAIN p

\* the direct children that qualify as text/plain, and as text/html
PlainAt(p) == {i \in 1..Len(p["parts"]) : IsPlainPart(p["parts"][i])}
HtmlAt(p) == {i \in 1..Len(p["parts"]) : IsHtmlPart(p["parts"][i])}

Least(S) == CHOOSE i \in S : \A j \in S : i <= j

\* the children with parts whose own extraction gives something (a text that
\* is not empty, or an exception)
NestedAt(p) ==
    {i \in 1..Len(p["parts"]) :
        /\ HasParts(p["parts"][i])
        /\ ExtractBody(ImplOf(op), p["parts"][i]) # Value(<<>>)}

\* steps (2) to (5) of the priority order, for a payload without body data
ChildOrder(p, r) ==
    IF ~HasParts(p) THEN r = Value(<<>>)
    ELSE IF PlainAt(p) # {} THEN r = Decoded(p["parts"][Least(PlainAt(p))])
    ELSE IF HtmlAt(p) # {} THEN r = CleanHtmlOf(Decoded(p["parts"][Least(HtmlAt(p))]))
    ELSE IF NestedAt(p) # {}
        THEN r = ExtractBody(ImplOf(op), p["parts"][Least(NestedAt(p))])
    ELSE r = Value(<<>>)

\* C3 as stated: a payload with body data of its own returns that decoded
\* body, whatever its children; otherwise the first text/plain child with
\* data, else the first text/html child with data after HTML-to-text, else
\* the nested children, else the empty string.
C3_PriorityOrderAsStated ==
    Extracted =>
        IF HasData(arg) THEN ret = Decoded(arg) ELSE ChildOrder(arg, ret)

\* C3, amended: the body of the payload itself is passed through HTML-to-text
\* when the payload's mimeType starts with "text/html"; the priority order is
\* as stated.  (The decoded body of a malformed part is what decode_part
\* gives: "" in gmail_utils.py, the error itself in app.py.)
C3_PriorityOrder ==
    Extracted =>
        IF HasData(arg)
        THEN ret = IF StartsWith(Get(arg, "mimeType", <<>>), TextHtml)
                   THEN CleanHtmlOf(Decoded(arg)) ELSE Decoded(arg)
        ELSE ChildOrder(arg, ret)

\* a text/html child with data comes before the text/plain child that is returned
C3_Witness ==
    /\ Extracted
    /\ ~HasData(arg) /\ HasParts(arg) /\ Len(arg["parts"]) = 2
    /\ arg["parts"][1] = HtmlHtml /\ arg["parts"][2] = PlainHello
    /\ ret = Value(<<"H", "e", "l", "l", "o">>)

\* a part of the payload whose body data does not decode
Malformed(p) == HasData(p) /\ DecodeBody(p).raised

RECURSIVE WithoutMalformed(_)
\* the payload with every malformed body taken as absent
WithoutMalformed(p) ==
    [k \in DOMAIN p \ (IF Malformed(p) THEN {"body"} ELSE {}) |->
        IF k = "parts" THEN [i \in 1..Len(p["parts"]) |-> WithoutMalformed(p["parts"][i])]
        ELSE p[k]]

\* C4: for a payload without body data of its own, a part whose body does not
\* decode is treated as empty and the scan goes on with the remaining
\* candidates: the result is the one the payload gives without that body, and
\* it is no exception.
C4_DecodeFailureIsSkipped ==
    (Extracted /\ ~HasData(arg)) => ret = ExtractBody("gmail_utils", WithoutMalformed(arg))

BodyText(p) == Utf8Replace(urlsafe_b64decode(p["body"]["data"]).bytes)

NestedResults(p) ==
    [i \in 1..Len(p["parts"]) |->
        IF HasParts(p["parts"][i]) THEN ExtractBody(ImplOf(op), p["parts"][i])
        ELSE Value(<<>>)]

Predicted == pc = "done" /\ op \in PredictOps

Invoked(f) == \E i \in 1..Len(calls) : calls[i].fn = f

\* one of the three external calls was made and raised
ModelRaised ==
    \/ Invoked("tfidf.transform") /\ arg.tfidf.transform = Exc
    \/ Invoked("model.predict") /\ arg.model.predict = Exc
    \/ Invoked("model.predict_proba") /\ arg.model.predict_proba = Exc

\* C9: predict_spam never raises and always returns a (label, confidence)
\* pair; when tfidf.transform, model.predict or model.predict_proba raises,
\* the error is reported and the result is (None, 0.0); a label of None always
\* comes with a confidence of exactly 0.0.
C9_PredictNeverRaises ==
    Predicted =>
        /\ ret.raised = FALSE
        /\ ret.val.label = PyNone => ret.val.confidence = PyFloat(0)
        /\ ModelRaised => (ret = Unknown /\ Invoked("st.error"))

\* C10: when the text fails validate_text_input (the empty string included)
\* or transform_text gives an empty token string, predict_spam of
\* model_utils.py returns (None, 0.0) and calls neither tfidf.transform nor
\* model.predict nor model.predict_proba.
C10_ShortCircuitWithoutModel ==
    (pc = "done" /\ op = "model_utils.predict_spam"
        /\ \/ ~validate_text_input(arg.text, PyInt(TEXT_MIN_LENGTH), PyInt(TEXT_MAX_LENGTH)).ok
           \/ transform_text(arg.text.val, arg.nltk_ok) = Value(<<>>))
    => /\ ret = Unknown
       /\ ~Invoked("tfidf.transform")
       /\ ~Invoked("model.predict")
       /\ ~Invoked("model.predict_proba")

\* a valid text of a stop word and a punctuation mark, with a working model
C10_Witness ==
    /\ pc = "done" /\ op = "model_utils.predict_spam"
    /\ arg.text = PyStr(<<Run("a", 1), Run("!", 1)>>)
    /\ arg.nltk_ok
    /\ arg.tfidf.transform # Exc /\ arg.model.predict = PyInt(1)
    /\ ret = Unknown /\ calls = <<>>

RECURSIVE Expand(_)
\* the characters of a text of runs
Expand(s) ==
    IF s = <<>> THEN <<>> ELSE [k \in 1..Head(s).n |-> Head(s).ch] \o Expand(Tail(s))

\* the token string of a text after clean_text_for_model
NormalizedTokens(text, nltk_ok) ==
    transform_text(Runs(clean_text_for_model(PyStr(Expand(text.val))).val), nltk_ok).val

\* the token strings tfidf.transform was given
Vectorized == {calls[i].args[1].val[1].val : i \in {j \in 1..Len(calls) : calls[j].fn = "tfidf.transform"}}

\* C11: predict_spam validates, normalizes with clean_text_for_model,
\* tokenizes with transform_text and classifies, in that order: whenever
\* tfidf.transform is called, the text passed validate_text_input and the
\* token string given to the vectorizer is the one of the normalized text
\* (compared for the texts short enough to be spelled out).
C11_VectorizerGetsValidatedNormalizedText ==
    (Predicted /\ Invoked("tfidf.transform")) =>
        /\ validate_text_input(arg.text, PyInt(TEXT_MIN_LENGTH), PyInt(TEXT_MAX_LENGTH)).ok
        /\ StrLen(arg.text.val) <= MaxRuns + 1
               => Vectorized = {NormalizedTokens(arg.text, arg.nltk_ok)}

(***************************************************************************)
(* Claims about the text cleaning, checked under SpecClean.                *)
(***************************************************************************)
Cleaned ==
    pc = "done" /\ op \in {"clean_text_for_model", "app.clean_text_for_model"}
        /\ arg.type = "str"

\* C12: clean_text_for_model is idempotent: applied to its own result it
\* returns that result unchanged.
C12_CleanIdempotent ==
    (pc = "again" /\ op = "clean_text_for_model") => ret = arg

\* a link starts at character i of s: "http://" or "https://" and then a
\* character that is no whitespace
LinkAt(s, i) ==
    \/ At(s, i, Http) /\ i + Len(Http) <= Len(s) /\ ~IsSpace(s[i + Len(Http)])
    \/ At(s, i, Https) /\ i + Len(Https) <= Len(s) /\ ~IsSpace(s[i + Len(Https)])

NoUrl(s) == \A i \in 1..Len(s) : ~LinkAt(s, i)

NoEdgeOrDoubleSpace(s) ==
    /\ s # <<>> => ~IsSpace(s[1]) /\ ~IsSpace(s[Len(s)])
    /\ \A i \in 1..(Len(s) - 1) : ~(IsSpace(s[i]) /\ IsSpace(s[i + 1]))

\* "Check now bold"
CheckNowBold ==
    <<"C", "h", "e", "c", "k", " ", "n", "o", "w", " ", "b", "o", "l", "d">>

\* C13 as stated: the output of clean_text_for_model has no http(s) URL, no
\* "<" and no ">", and no leading, trailing or consecutive whitespace; the
\* example gives "Check now bold".
C13_NoUrlNoAngleBracketAsStated ==
    Cleaned =>
        /\ NoUrl(ret.val)
        /\ \A i \in 1..Len(ret.val) : ret.val[i] \notin {"<", ">"}
        /\ NoEdgeOrDoubleSpace(ret.val)
        /\ arg.val = ExampleCheck => ret.val = CheckNowBold

\* C13: the output of clean_text_for_model has no http(s) URL (no "http://"
\* or "https://" followed by a character that is no whitespace), no tag (no
\* "<" with a ">" anywhere after it), and no leading, trailing or
\* consecutive whitespace; the example gives "Check now bold".
C13_NoUrlNoTag ==
    Cleaned =>
        /\ NoUrl(ret.val)
        /\ \A i \in 1..Len(ret.val) : \A j \in (i + 1)..Len(ret.val) :
               ~(ret.val[i] = "<" /\ ret.val[j] = ">")
        /\ NoEdgeOrDoubleSpace(ret.val)
        /\ arg.val = ExampleCheck => ret.val = CheckNowBold

C13_Witness ==
    /\ pc = "done" /\ op = "app.clean_text_for_model"
    /\ arg = PyStr(ExampleCheck)
    /\ ret = PyStr(CheckNowBold)

\* the last character of the run of characters that are no whitespace from i on
WordEnd(s, i) ==
    CHOOSE j \in i..Len(s) :
        /\ \A k \in i..j : ~IsSpace(s[k])
        /\ j = Len(s) \/ IsSpace(s[j + 1])

\* where the links of s start: the first place of a word where a link starts
LinkStarts(s) ==
    {i \in 1..Len(s) :
        /\ LinkAt(s, i)
        /\ \A h \in 1..(i - 1) : LinkAt(s, h) => \E k \in h..i : IsSpace(s[k])}

\* the k-th smallest member of a set of numbers
Nth(S, k) == CHOOSE i \in S : Cardinality({j \in S : j < i}) = k - 1

\* C14: extract_links returns, in order of occurrence, the non-overlapping
\* matches: each a contiguous substring of the text that starts with
\* "http://" or "https://" and runs to the end of its word, so without
\* whitespace; as many as there are matches, duplicates kept; the empty list
\* for an empty or absent text.
C14_LinksInOrder ==
    (pc = "done" /\ op = "extract_links") =>
        IF arg.type # "str" \/ arg.val = <<>> THEN ret = PyList(<<>>)
        ELSE /\ ret.type = "list"
             /\ Len(ret.val) = Cardinality(LinkStarts(arg.val))
             /\ \A k \in 1..Len(ret.val) :
                    LET start == Nth(LinkStarts(arg.val), k)
                        link == ret.val[k].val
                    IN /\ link = SubSeq(arg.val, start, WordEnd(arg.val, start))
                       /\ StartsWith(link, Http) \/ StartsWith(link, Https)
                       /\ \A i \in 1..Len(link) : ~IsSpace(link[i])

\* "see http://a.com and http://a.com" gives the same link twice
C14_Witness ==
    /\ pc = "done" /\ op = "extract_links"
    /\ arg = PyStr(ExampleLinks)
    /\ Len(ret.val) = 2
    /\ ret.val[1] = ret.val[2]
    /\ ret.val[1] = PyStr(Http \o <<"a", ".", "c", "o", "m">>)

C17_BoundedDepthFirstSearch ==
    (pc = "done" /\ op = "gmail_utils.extract_email_content") =>
        /\ ~ret.raised
        /\ \A i \in 1..Len(calls) : calls[i].depth <= Len(arg)

(***************************************************************************)
(* Claims about fetch_emails, checked under SpecFetch.                     *)
(***************************************************************************)
ListFailed == arg.authenticate = Exc \/ arg.list = Exc

Listed == IF ListFailed THEN <<>> ELSE Get(arg.list, "messages", <<>>)

\* the value of the last header of that name, the default without one
HeaderOr(msg, n, default) ==
    LET at == {i \in 1..Len(msg.headers) : msg.headers[i].name = n}
    IN IF at = {} THEN default
       ELSE msg.headers[CHOOSE i \in at : \A j \in at : j <= i].value

\* the listed messages that were retrieved and whose record is valid; the
\* content of a record is its text with whitespace collapsed and stripped
Survivors ==
    {i \in 1..Len(Listed) :
        /\ Listed[i] # Exc
        /\ StrLen(clean_text_for_display(Listed[i].content.val)) <= EMAIL_MAX_SIZE}

\* C18: fetch_emails returns, in message order, exactly the records of the
\* listed messages whose retrieval raised nothing and which pass
\* validate_email_data; a message that fails is dropped alone and every
\* message after it is still retrieved; a failure of the list call gives
\* ([], None); every returned record has a string subject, sender and date,
\* "No Subject", "Unknown Sender" and "Unknown Date" when the header is absent.
C18_FetchKeepsValidInOrder ==
    (pc = "done" /\ op = "fetch_emails") =>
        LET emails == ret.val.emails.val IN
        /\ ~ret.raised
        /\ ListFailed => ret = Fetched(<<>>, PyNone)
        /\ Len(emails) = Cardinality(Survivors)
        /\ \A k \in 1..Len(emails) :
               LET msg == Listed[Nth(Survivors, k)] IN
               /\ emails[k].val["subject"] = HeaderOr(msg, "Subject", NoSubject)
               /\ emails[k].val["sender"] = HeaderOr(msg, "From", UnknownSender)
               /\ emails[k].val["date"] = HeaderOr(msg, "Date", UnknownDate)
               /\ \A f \in {"subject", "sender", "date"} : emails[k].val[f].type = "str"
               /\ validate_email_data(emails[k]).ok
        /\ \A i \in 1..Len(Listed) : \E c \in 1..Len(calls) :
               calls[c] = Call("messages.get", <<i>>)

\* the first message cannot be retrieved, the second is too large, the third
\* has no header and is returned with the defaults
C18_Witness ==
    /\ pc = "done" /\ op = "fetch_emails"
    /\ Len(Listed) = 3
    /\ Listed[1] = Exc
    /\ Listed[2] # Exc /\ Listed[2].content = Value(Long(EMAIL_MAX_SIZE + 1))
    /\ Listed[3] # Exc /\ Listed[3].headers = <<>>
    /\ Len(ret.val.emails.val) = 1
    /\ ret.val.emails.val[1].val["subject"] = NoSubject
    /\ ret.val.emails.val[1].val["date"] = UnknownDate
    /\ ret.val.next_page_token = NextToken

(***************************************************************************)
(* Claims about the pagination, checked under SpecPages.                   *)
(***************************************************************************)
Stack == session_state["page_token_stack"]
Index == session_state["current_page_index"]

\* the stored entries of the stack stay as they are
StackKept == Len(Stack') >= Len(Stack) /\ SubSeq(Stack', 1, Len(Stack)) = Stack

\* C19: after initialize_session_state and any clicks on Previous and Next,
\* 0 <= current_page_index < len(page_token_stack) and page_token_stack[0] is
\* None; Previous decrements the index only when it is > 0 and leaves the
\* stack alone; Next moves only when the fetch gave a next token, appends
\* that token only when the index is the last position of the stack and
\* otherwise moves to the stored token; no stored entry is changed or removed.
C19_PaginationInvariant ==
    /\ [](pc = "page" => /\ 0 <= Index /\ Index < Len(Stack)
                         /\ Stack[1] = PyNone)
    /\ [][(pc = "page" /\ op' = "Previous") =>
            /\ Stack' = Stack
            /\ Index' = IF Index > 0 /\ arg'.emails THEN Index - 1 ELSE Index]_vars
    /\ [][(pc = "page" /\ op' = "Next") =>
            /\ Index' # Index => (Truthy(arg'.next_token) /\ Index' = Index + 1)
            /\ Stack' = IF Index' # Index /\ Index = Len(Stack) - 1
                        THEN Append(Stack, arg'.next_token) ELSE Stack]_vars
    /\ [][pc = "page" => StackKept]_vars

\* Next from the first page of three that are stored: nothing is appended
C19_Witness ==
    /\ pc = "page" /\ op = "Next"
    /\ Len(Stack) = 3 /\ Index = 1
    /\ Stack[2] # arg.next_token

(***************************************************************************)
(* Claims about gmail_authenticate, checked under SpecAuth.                *)
(***************************************************************************)
\* the credentials given to the calls of f
GivenTo(f) == {calls[i].args[1] : i \in {j \in 1..Len(calls) : calls[j].fn = f}}

\* C20: build(...) is only reached with credentials that were loaded from
\* the token file and valid, or refreshed, or newly obtained from the
\* authorization flow; loaded credentials that are invalid and not
\* refreshable always lead to the new authorization; the token file is only
\* written with refreshed or newly obtained credentials.
C20_BuildOnlyWithUsableCreds ==
    (pc = "done" /\ op \in AuthOps) =>
        /\ \A c \in GivenTo("build") :
               c # PyNone /\ (c.origin \in {"refreshed", "new"} \/ c.valid)
        /\ (arg.token_exists /\ arg.load # Exc /\ ~arg.load.valid /\ ~Refreshable(arg.load))
               => Invoked("os.path.exists")
        /\ \A c \in GivenTo("token.write") : c # PyNone /\ c.origin \in {"refreshed", "new"}

====
